---- MODULE Spec2Model ----
(***************************************************************************)
(* Brain-state labelling (extract_brain_states*.py, tr_net_labels) and the *)
(* temporal-dynamics metrics (calculate_temporal_metrics_NoLIM.py,         *)
(* calculate_dynamics_for_group and the analysis loop of __main__), the    *)
(* two extraction scripts as a whole (setup, dataset and subject loops,    *)
(* state maps) and get_control_energy of compute_control_energy_onesub.py. *)
(*                                                                         *)
(* Real numbers are exact rationals <<numerator, denominator>> in lowest   *)
(* terms with a positive denominator.  A missing value (NaN) is <<0, 0>>.   *)
(* Positions in arrays are 0-based as in the source; TLA+ sequences are    *)
(* 1-based, so element p of an array a is a[p + 1].                        *)
(***************************************************************************)
EXTENDS Integers, Sequences, FiniteSets, TLC

\* ------------------------------------------------------------------------
\* Bounds of the model
\* ------------------------------------------------------------------------
MaxLen == 4          \* longest label file
MaxStates == 3       \* largest n_states
MaxT == 5            \* largest total_timepoints
MaxLabels == 3       \* largest nlabels of the classifier (networks + NOTA)
MaxRois == 3         \* regions in one timepoint's frame
MaxLenGroup == 2     \* longest label file of a two-subject cohort

\* ------------------------------------------------------------------------
\* Exact arithmetic
\* ------------------------------------------------------------------------
NaN == <<0, 0>>

Abs(x) == IF x < 0 THEN -x ELSE x

RECURSIVE GCD(_, _)
GCD(a, b) == IF b = 0 THEN a ELSE GCD(b, a % b)

Rat(n, d) ==
    LET g == GCD(Abs(n), Abs(d))
        s == IF d < 0 THEN -1 ELSE 1
    IN  <<(s * n) \div g, (s * d) \div g>>

Zero == <<0, 1>>
One == <<1, 1>>

RatAdd(a, b) == Rat(a[1] * b[2] + b[1] * a[2], a[2] * b[2])
RatMul(a, b) == Rat(a[1] * b[1], a[2] * b[2])
RatDiv(a, b) == Rat(a[1] * b[2], a[2] * b[1])
RatGeq(a, b) == a[1] * b[2] >= b[1] * a[2]
RatGt(a, b) == a[1] * b[2] > b[1] * a[2]

RECURSIVE SeqSum(_)
SeqSum(s) == IF s = <<>> THEN 0 ELSE Head(s) + SeqSum(Tail(s))

RECURSIVE RatSum(_)
RatSum(s) == IF s = <<>> THEN Zero ELSE RatAdd(Head(s), RatSum(Tail(s)))

\* all sequences over S of length 0..n
SeqsUpTo(S, n) == UNION {[1..m -> S] : m \in 0..n}

VARIABLES
    \* ---- extract_brain_states.py / extract_brain_states_noLIM.py ----
    script,             \* "full" or "noLIM"
    atlas_exists,       \* os.path.exists(ATLAS_ORDER_FILE)
    original_atlas_order, \* rows of the atlas file: [ROI, network_id]
    limbic_label_name,  \* name of the network the noLIM script excludes
    atlas_order,        \* atlas rows in use (noLIM: filtered and renumbered)
    rois_to_keep_indices,
    labels,             \* label names in use, NOTA last
    roi2id,             \* region id -> network id
    subject_lists,      \* dataset -> subject list file
    bold,               \* subject id -> activity file (timepoints x columns)
    dataset,            \* position in datasets (1-based)
    subjects,           \* subject list of the current dataset
    subj,               \* position in subjects (1-based)
    ttss,               \* z-scored activity of the current subject
    all_states_list,    \* rows of the group table of the current dataset
    label_files,        \* subject id -> saved label sequence
    csv_files,          \* dataset -> saved group table
    bold_read,          \* subjects whose activity file has been read
    \* ---- get_control_energy ----
    subject_id,
    n_roi,
    states_file,        \* state-maps_subject-level.csv: rows [subject, state, value]
    sc_exists,          \* os.path.exists(adjacency_path)
    subj_states_df,     \* rows of the subject
    present_labels,
    states_matrix,      \* one column (vector of n_roi values) per present label
    control_tasks,      \* [initial_idx, target_idx], 0-based columns
    energy_file,        \* {subject_id}_OCE_T1_{threshold}.csv
    \* ---- tr_net_labels, one timepoint ----
    df,                 \* rows of the timepoint's frame: [network_id, value]
    nlabels,            \* number of labels, NOTA last
    activity_thr,       \* activation threshold
    temp_label,         \* value returned by tr_net_labels (0: not yet called)
    \* ---- calculate_dynamics_for_group and __main__ ----
    thre_type,          \* condition of the analysis loop
    subject_list,       \* subject ids
    files,              \* data_dir: subject id -> label array or NoFile
    n_states,
    tr_duration_s,
    total_timepoints,
    pc,                 \* position in the code
    sub,                \* position in subject_list (1-based)
    time_labels,
    fo_list, dt_list, ar_list, tp_list, tp_nopersist_list,
    block_starts, block_ends, block_lengths, block_states,
    tp_matrix,          \* transition counts of the current subject
    ret,                \* tuple returned by calculate_dynamics_for_group
    mat                 \* mat_dict handed to savemat

classifyVars == <<df, nlabels, activity_thr, temp_label>>
callVars == <<thre_type, subject_list, files, n_states, tr_duration_s, total_timepoints>>
listVars == <<fo_list, dt_list, ar_list, tp_list, tp_nopersist_list>>
blockVars == <<block_starts, block_ends, block_lengths, block_states>>
metricVars == <<callVars, pc, sub, time_labels, listVars, blockVars, tp_matrix, ret, mat>>
configVars == <<script, atlas_exists, original_atlas_order, limbic_label_name>>
setupVars == <<atlas_order, rois_to_keep_indices, labels, roi2id>>
inputVars == <<subject_lists, bold>>
loopVars == <<dataset, subjects, subj, ttss, all_states_list>>
outputVars == <<label_files, csv_files, bold_read>>
extractVars == <<configVars, setupVars, inputVars, loopVars, outputVars>>
metricData == <<callVars, sub, time_labels, listVars, blockVars, tp_matrix, ret, mat>>
energyVars == <<subject_id, n_roi, states_file, sc_exists, subj_states_df, present_labels,
                states_matrix, control_tasks, energy_file>>
vars == <<classifyVars, metricVars, extractVars, energyVars>>

\* ------------------------------------------------------------------------
\* tr_net_labels
\* ------------------------------------------------------------------------
\* df[df['network_id'] == i]['value'].mean(): pandas skips missing values;
\* the mean of no values is NaN
NetMean(frame, i) ==
    LET vals == SelectSeq(frame, LAMBDA r : r.network_id = i /\ r.value # NaN)
    IN  IF Len(vals) = 0 THEN NaN
        ELSE RatDiv(RatSum([p \in 1..Len(vals) |-> vals[p].value]), Rat(Len(vals), 1))

\* net_means, one entry per network 1..nlabels-1 (range(1, nlabels))
net_means(frame, nl) == [i \in 1..(nl - 1) |-> NetMean(frame, i)]

\* np.argmax, 0-based: the first NaN if there is one, else the first maximum
argmax(a) ==
    LET nans == {p \in 1..Len(a) : a[p] = NaN}
        tops == {p \in 1..Len(a) : \A q \in 1..Len(a) : RatGeq(a[p], a[q])}
        first(S) == CHOOSE p \in S : \A q \in S : p <= q
    IN  IF nans # {} THEN first(nans) - 1 ELSE first(tops) - 1

\* mutant of GeqThr: the threshold must be exceeded
GeqThrStrict(x, thr) == IF x = NaN THEN FALSE ELSE RatGt(x, thr)

\* net_means[idx] >= activity_thr; a comparison with NaN is False
GeqThr(x, thr) == IF x = NaN THEN FALSE ELSE RatGeq(x, thr)

tr_net_labels(frame, nl, thr) ==
    LET means == net_means(frame, nl)
        idx == argmax(means)
    IN  IF GeqThr(means[idx + 1], thr) THEN idx + 1 ELSE nl

\* time_labels[tr] = tr_net_labels(ttss_df[ttss_df.tr == tr], nlabels, thr)
LabelTimepoint ==
    /\ pc = "tr"
    /\ temp_label' = tr_net_labels(df, nlabels, activity_thr)
    /\ pc' = "labelled"
    /\ UNCHANGED <<extractVars, df, nlabels, activity_thr, callVars, sub, time_labels, listVars,
                   blockVars, tp_matrix, ret, mat>>
    /\ UNCHANGED energyVars

\* ------------------------------------------------------------------------
\* calculate_dynamics_for_group: the per-subject computations
\* ------------------------------------------------------------------------
\* a label file of data_dir: absent, or present with its array
NoFile == [exists |-> FALSE, data |-> <<>>]
File(a) == [exists |-> TRUE, data |-> a]

\* np.sum(time_labels == i)
CountLabel(lab, i) == Cardinality({p \in 1..Len(lab) : lab[p] = i})

\* mutant of fo: states numbered from 0 (range(n_states))
fo_from_zero(lab, n, T) == [i \in 1..n |-> Rat(CountLabel(lab, i - 1), T)]

\* fo: one entry per state 1..n_states, divided by total_timepoints
fo(lab, n, T) == [i \in 1..n |-> Rat(CountLabel(lab, i), T)]

\* mutant of scan_length_min: the scan length in seconds
scan_length_s(T, tr) == RatMul(Rat(T, 1), tr)

\* scan_length_min = (total_timepoints * tr_duration_s) / 60.0
scan_length_min(T, tr) == RatDiv(RatMul(Rat(T, 1), tr), Rat(60, 1))

\* mutant of change_points: the "+ 1" is missing
change_points_unshifted(lab) ==
    LET found == SelectSeq([p \in 1..(Len(lab) - 1) |-> p],
                           LAMBDA p : lab[p + 1] # lab[p])
    IN  [k \in 1..Len(found) |-> found[k] - 1]

\* np.where(np.diff(time_labels) != 0)[0] + 1: the 0-based positions whose
\* label differs from the label just before
change_points(lab) ==
    SelectSeq([p \in 1..(Len(lab) - 1) |-> p], LAMBDA p : lab[p + 1] # lab[p])

\* np.insert(change_points, 0, 0)
BlockStarts(lab) == <<0>> \o change_points(lab)

\* mutant of BlockEnds: the last block ends at the last position
BlockEndsAtLast(lab, T) == change_points(lab) \o <<T - 1>>

\* np.append(change_points, total_timepoints)
BlockEnds(lab, T) == change_points(lab) \o <<T>>

\* mutant of BlockLengths: both ends counted
BlockLengthsInclusive(starts, ends) ==
    [b \in 1..Len(starts) |-> ends[b] - starts[b] + 1]

\* block_ends - block_starts
BlockLengths(starts, ends) == [b \in 1..Len(starts) |-> ends[b] - starts[b]]

\* time_labels[block_starts] - 1
BlockStates(lab, starts) == [b \in 1..Len(starts) |-> lab[starts[b] + 1] - 1]

\* mutant of current_state_block_lengths: the block's state is compared with
\* the 1-based label
current_state_block_lengths_one_based(lens, states, i) ==
    LET sel == SelectSeq([b \in 1..Len(lens) |-> b], LAMBDA b : states[b] = i + 1)
    IN  [k \in 1..Len(sel) |-> lens[sel[k]]]

\* block_lengths[block_states == i], i 0-based
current_state_block_lengths(lens, states, i) ==
    LET sel == SelectSeq([b \in 1..Len(lens) |-> b], LAMBDA b : states[b] = i)
    IN  [k \in 1..Len(sel) |-> lens[sel[k]]]

\* mutant of dt_subject: total instead of mean block length
dt_subject_total(lens, states, n, tr) ==
    [i \in 1..n |->
        LET c == current_state_block_lengths(lens, states, i - 1)
        IN  IF Len(c) > 0 THEN RatMul(Rat(SeqSum(c), 1), tr) ELSE Zero]

\* np.mean(current_state_block_lengths) * tr_duration_s, 0 without blocks
dt_subject(lens, states, n, tr) ==
    [i \in 1..n |->
        LET c == current_state_block_lengths(lens, states, i - 1)
        IN  IF Len(c) > 0 THEN RatMul(Rat(SeqSum(c), Len(c)), tr) ELSE Zero]

\* len(current_state_block_lengths) / scan_length_min, 0 without blocks
ar_subject(lens, states, n, T, tr) ==
    [i \in 1..n |->
        LET c == current_state_block_lengths(lens, states, i - 1)
        IN  IF Len(c) > 0 THEN RatDiv(Rat(Len(c), 1), scan_length_min(T, tr))
            ELSE Zero]

\* mutant of ValidPair: the lower bounds are not checked
ValidBelowOnly(from, to, n) == from < n /\ to < n

\* mutant of ValidPair: only from_state is checked
ValidFromOnly(from, to, n) == 0 <= from /\ from < n

\* the guard of the counting loop: 0 <= from_state < n_states and
\* 0 <= to_state < n_states
ValidPair(from, to, n) == 0 <= from /\ from < n /\ 0 <= to /\ to < n

\* numpy indexing of an axis of length n: a negative index counts from the end
NpIndex(s, n) == IF s < 0 THEN s + n ELSE s

\* tp_matrix after the loop over t in range(total_timepoints - 1)
TpCounts(lab, n, T) ==
    [i \in 1..n |-> [j \in 1..n |->
        Cardinality({t \in 0..(T - 2) :
            /\ ValidPair(lab[t + 1] - 1, lab[t + 2] - 1, n)
            /\ NpIndex(lab[t + 1] - 1, n) = i - 1
            /\ NpIndex(lab[t + 2] - 1, n) = j - 1})]]

\* mutant of GuardedRowDivide: plain division, 0/0 is NaN
UnguardedRowDivide(m) ==
    [i \in 1..Len(m) |->
        LET row_sum == SeqSum(m[i])
        IN  [j \in 1..Len(m[i]) |->
                IF row_sum # 0 THEN Rat(m[i][j], row_sum) ELSE NaN]]

\* np.divide(m, row_sums, out=zeros, where=row_sums != 0)
GuardedRowDivide(m) ==
    [i \in 1..Len(m) |->
        LET row_sum == SeqSum(m[i])
        IN  [j \in 1..Len(m[i]) |->
                IF row_sum # 0 THEN Rat(m[i][j], row_sum) ELSE Zero]]

\* np.fill_diagonal(copy, 0)
FillDiagonalZero(m) ==
    [i \in 1..Len(m) |-> [j \in 1..Len(m[i]) |-> IF i = j THEN 0 ELSE m[i][j]]]

tp2d(counts) == GuardedRowDivide(counts)
tp2d_nopersist(counts) == GuardedRowDivide(FillDiagonalZero(counts))

\* mutant of StackT: the transposition is missing
StackOnly(list, n) == list

\* np.stack(list).T: (subject, state) -> (state, subject)
StackT(list, n) == [i \in 1..n |-> [s \in 1..Len(list) |-> list[s][i]]]

\* mutant of DropLast: a[1:]
DropFirst(a) == SubSeq(a, 2, Len(a))

\* a[:-1]
DropLast(a) == SubSeq(a, 1, Len(a) - 1)

\* mutant of DropLastRowCol: the rows are normalised again after the slicing
DropLastRowColRenormalised(a) ==
    [s \in 1..Len(a) |->
        DropLast([i \in 1..Len(a[s]) |->
            LET row == DropLast(a[s][i])
                row_sum == RatSum(row)
            IN  [j \in 1..Len(row) |->
                    IF row_sum # Zero THEN RatDiv(row[j], row_sum) ELSE Zero]])]

\* a[:, :-1, :-1]
DropLastRowCol(a) ==
    [s \in 1..Len(a) |-> DropLast([i \in 1..Len(a[s]) |-> DropLast(a[s][i])])]

\* the slicing of __main__ for 'thr_0'
RemoveNOTA(r) ==
    [fo |-> DropLast(r.fo), dt |-> DropLast(r.dt), ar |-> DropLast(r.ar),
     tp |-> DropLastRowCol(r.tp), tp_nopersist |-> DropLastRowCol(r.tp_nopersist)]

NoResult ==
    [fo |-> <<>>, dt |-> <<>>, ar |-> <<>>, tp |-> <<>>, tp_nopersist |-> <<>>]

\* ------------------------------------------------------------------------
\* Steps of calculate_dynamics_for_group and of the analysis loop
\* ------------------------------------------------------------------------
InLoop == pc = "loop" /\ sub <= Len(subject_list)

\* file not found: warn and continue with the next subject
SkipMissing ==
    /\ InLoop
    /\ ~files[subject_list[sub]].exists
    /\ sub' = sub + 1
    /\ UNCHANGED <<extractVars, classifyVars, callVars, pc, time_labels, listVars, blockVars,
                   tp_matrix, ret, mat>>
    /\ UNCHANGED energyVars

\* mutant of LoadLabels: the array of the first listed subject is loaded
\* for every subject
LoadLabelsFirst ==
    /\ InLoop
    /\ files[subject_list[sub]].exists
    /\ time_labels' = files[subject_list[1]].data
    /\ pc' = "fo"
    /\ UNCHANGED <<extractVars, classifyVars, callVars, sub, listVars, blockVars, tp_matrix, ret, mat>>
    /\ UNCHANGED energyVars

\* np.load(file_path).astype(int); label files hold whole numbers
LoadLabels ==
    /\ InLoop
    /\ files[subject_list[sub]].exists
    /\ time_labels' = files[subject_list[sub]].data
    /\ pc' = "fo"
    /\ UNCHANGED <<extractVars, classifyVars, callVars, sub, listVars, blockVars, tp_matrix, ret, mat>>
    /\ UNCHANGED energyVars

ComputeFO ==
    /\ pc = "fo"
    /\ fo_list' = Append(fo_list, fo(time_labels, n_states, total_timepoints))
    /\ pc' = "blocks"
    /\ UNCHANGED <<extractVars, classifyVars, callVars, sub, time_labels, dt_list, ar_list,
                   tp_list, tp_nopersist_list, blockVars, tp_matrix, ret, mat>>
    /\ UNCHANGED energyVars

\* block decomposition; indexing an empty array with position 0 raises
ComputeBlocks ==
    /\ pc = "blocks"
    /\ block_starts' = BlockStarts(time_labels)
    /\ block_ends' = BlockEnds(time_labels, total_timepoints)
    /\ block_lengths' = BlockLengths(block_starts', block_ends')
    /\ IF Len(time_labels) = 0
          THEN pc' = "raised" /\ UNCHANGED block_states
          ELSE pc' = "dtar" /\ block_states' = BlockStates(time_labels, block_starts')
    /\ UNCHANGED <<extractVars, classifyVars, callVars, sub, time_labels, listVars, tp_matrix, ret, mat>>
    /\ UNCHANGED energyVars

ComputeDTAR ==
    /\ pc = "dtar"
    /\ dt_list' = Append(dt_list,
            dt_subject(block_lengths, block_states, n_states, tr_duration_s))
    /\ ar_list' = Append(ar_list,
            ar_subject(block_lengths, block_states, n_states, total_timepoints,
                       tr_duration_s))
    /\ pc' = "tp"
    /\ UNCHANGED <<extractVars, classifyVars, callVars, sub, time_labels, fo_list, tp_list,
                   tp_nopersist_list, blockVars, tp_matrix, ret, mat>>
    /\ UNCHANGED energyVars

\* the counting loop reads positions 0..total_timepoints-1 and raises when
\* the array is shorter
ComputeTP ==
    /\ pc = "tp"
    /\ IF total_timepoints >= 2 /\ Len(time_labels) < total_timepoints
          THEN /\ pc' = "raised"
               /\ UNCHANGED <<sub, tp_matrix, tp_list, tp_nopersist_list>>
          ELSE /\ tp_matrix' = TpCounts(time_labels, n_states, total_timepoints)
               /\ tp_list' = Append(tp_list, tp2d(tp_matrix'))
               /\ tp_nopersist_list' = Append(tp_nopersist_list, tp2d_nopersist(tp_matrix'))
               /\ sub' = sub + 1
               /\ pc' = "loop"
    /\ UNCHANGED <<extractVars, classifyVars, callVars, time_labels, fo_list, dt_list, ar_list,
                   blockVars, ret, mat>>
    /\ UNCHANGED energyVars

\* np.stack of an empty list raises
Return ==
    /\ pc = "loop"
    /\ sub > Len(subject_list)
    /\ IF fo_list = <<>>
          THEN pc' = "raised" /\ UNCHANGED ret
          ELSE /\ pc' = "returned"
               /\ ret' = [fo |-> StackT(fo_list, n_states),
                          dt |-> StackT(dt_list, n_states),
                          ar |-> StackT(ar_list, n_states),
                          tp |-> tp_list,
                          tp_nopersist |-> tp_nopersist_list]
    /\ UNCHANGED <<extractVars, classifyVars, callVars, sub, time_labels, listVars, blockVars,
                   tp_matrix, mat>>
    /\ UNCHANGED energyVars

\* __main__: remove the NOTA state for 'thr_0', then savemat
RemoveNOTAAndSave ==
    /\ pc = "returned"
    /\ mat' = IF thre_type = "thr_0" THEN RemoveNOTA(ret) ELSE ret
    /\ pc' = "saved"
    /\ UNCHANGED <<extractVars, classifyVars, callVars, sub, time_labels, listVars, blockVars,
                   tp_matrix, ret>>
    /\ UNCHANGED energyVars

\* ------------------------------------------------------------------------
\* extract_brain_states.py ("full") and extract_brain_states_noLIM.py
\* ("noLIM"): configuration
\* ------------------------------------------------------------------------
datasets == <<"HC", "MDD">>

\* the network names of LABELS / original_labels, in their order
NetworkNames ==
    <<"Vis", "SomMot", "DorsAttn", "VentAttn", "Limbic", "Frontoparietal", "Default">>

\* LABELS / original_labels cut down to MaxLabels names: the first
\* MaxLabels - 1 networks, and NOTA last
original_labels == SubSeq(NetworkNames, 1, MaxLabels - 1) \o <<"NOTA">>

\* number of cortical regions, the 210 of ttss_246[:, :210]
NRegions == MaxRois - 1

\* mutant of limbic_id_of: a name that is not found counts as the last label
limbic_id_of_lenient(name) ==
    IF \E p \in 1..Len(original_labels) : original_labels[p] = name
    THEN CHOOSE p \in 1..Len(original_labels) :
             /\ original_labels[p] = name
             /\ \A q \in 1..(p - 1) : original_labels[q] # name
    ELSE Len(original_labels)

\* original_labels.index(name) + 1; 0 stands for the ValueError of .index
limbic_id_of(name) ==
    IF \E p \in 1..Len(original_labels) : original_labels[p] = name
    THEN CHOOSE p \in 1..Len(original_labels) :
             /\ original_labels[p] = name
             /\ \A q \in 1..(p - 1) : original_labels[q] # name
    ELSE 0

\* original_atlas_order[original_atlas_order['network_id'] != limbic_id]
FilterAtlas(atlas, lid) == SelectSeq(atlas, LAMBDA r : r.network_id # lid)

\* atlas_order['ROI'].values - 1
RoisToKeep(atlas) == [p \in 1..Len(atlas) |-> atlas[p].ROI - 1]

\* [label for label in original_labels if label != limbic_label_name]
RemainingLabels(name) == SelectSeq(original_labels, LAMBDA l : l # name)

\* mutant of old_to_new_id_map: the identifiers are kept as they are
old_to_new_id_map_identity(atlas) ==
    [old \in {atlas[p].network_id : p \in 1..Len(atlas)} |-> old]

\* {old_id: new_id for new_id, old_id in enumerate(sorted(unique ids), 1)}:
\* an identifier's new value is its rank among the identifiers present
old_to_new_id_map(atlas) ==
    LET ids == {atlas[p].network_id : p \in 1..Len(atlas)}
    IN  [old \in ids |-> Cardinality({o \in ids : o <= old})]

\* atlas_order['network_id'].map(old_to_new_id_map)
RemapAtlas(atlas) ==
    LET map == old_to_new_id_map(atlas)
    IN  [p \in 1..Len(atlas) |->
            [ROI |-> atlas[p].ROI, network_id |-> map[atlas[p].network_id]]]

\* dict(zip(atlas_order['ROI'], atlas_order['network_id'])): the last row of
\* a region wins
Roi2Id(atlas) ==
    [r \in {atlas[p].ROI : p \in 1..Len(atlas)} |->
        LET last == CHOOSE p \in 1..Len(atlas) :
                        /\ atlas[p].ROI = r
                        /\ \A q \in (p + 1)..Len(atlas) : atlas[q].ROI # r
        IN  atlas[last].network_id]

\* Series.map(dict): a key that is not in the dict maps to a missing value,
\* written 0 here (no network has identifier 0)
MapGet(f, k) == IF k \in DOMAIN f THEN f[k] ELSE 0

\* ------------------------------------------------------------------------
\* the per-subject computations of the extraction scripts
\* ------------------------------------------------------------------------
RatSub(a, b) == RatAdd(a, RatMul(<<-1, 1>>, b))

IsSquare(n) == \E r \in 0..n : r * r = n
ISqrt(n) == CHOOSE r \in 0..n : r * r = n

Col(m, c) == [t \in 1..Len(m) |-> m[t][c]]

ColMean(col) == RatDiv(RatSum(col), Rat(Len(col), 1))

\* population variance (ddof = 0) of a column of numbers
ColVar(col) ==
    LET mu == ColMean(col)
        d == [t \in 1..Len(col) |-> RatMul(RatSub(col[t], mu), RatSub(col[t], mu))]
    IN  RatDiv(RatSum(d), Rat(Len(col), 1))

\* columns whose standard deviation is a rational number
HasRationalStd(col) ==
    LET v == ColVar(col) IN IsSquare(v[1]) /\ IsSquare(v[2])

\* stats.zscore of one column: (x - mean) / std; a column of zero variance
\* becomes 0 / 0 = NaN throughout
zscore_col(col) ==
    LET mu == ColMean(col)
        v == ColVar(col)
        sd == <<ISqrt(v[1]), ISqrt(v[2])>>
    IN  [t \in 1..Len(col) |->
            IF v = Zero THEN NaN ELSE RatDiv(RatSub(col[t], mu), sd)]

\* stats.zscore(ttss, axis=0) on a matrix of raw integers with ncols columns
zscore(m, ncols) ==
    LET raw(c) == [t \in 1..Len(m) |-> Rat(m[t][c], 1)]
    IN  [t \in 1..Len(m) |-> [c \in 1..ncols |-> zscore_col(raw(c))[t]]]

\* ttss_246[:, :210]
FirstColumns(m, n) == [t \in 1..Len(m) |-> SubSeq(m[t], 1, n)]

\* ttss_full[:, rois_to_keep_indices]
TakeColumns(m, idx) == [t \in 1..Len(m) |-> [p \in 1..Len(idx) |-> m[t][idx[p] + 1]]]

\* network of column c (1-based 'roi' of ttss_df) in the full script:
\* ttss_df['roi'].map(roi2id)
NetworkOfColumnFull(r2i, c) == MapGet(r2i, c)

\* in the noLIM script: roi -> original_roi through the atlas rows, then
\* roi2id
NetworkOfColumnNoLIM(atlas, r2i, c) ==
    IF c \in 1..Len(atlas) THEN MapGet(r2i, atlas[c].ROI) ELSE 0

\* ttss_df[ttss_df.tr == tr]: one row per column of ttss; nets[c] is the
\* network_id of column c
FrameOf(z, tr, nets) ==
    [c \in 1..Len(z[tr]) |-> [network_id |-> nets[c], value |-> z[tr][c]]]

\* the labelling loop over range(n_timepoints)
LabelAll(z, nets, nl, thr) ==
    [tr \in 1..Len(z) |-> tr_net_labels(FrameOf(z, tr, nets), nl, thr)]

\* np.mean(ttss[mask], axis=0) of one column: NaN as soon as one value is
NpMean(vals) ==
    IF \E p \in 1..Len(vals) : vals[p] = NaN THEN NaN
    ELSE RatDiv(RatSum(vals), Rat(Len(vals), 1))

\* mutant of StateMap: a state without timepoints gets the mean of nothing
StateMapMeanOnly(z, tl, lab, ncols) ==
    LET ts == SelectSeq([t \in 1..Len(tl) |-> t], LAMBDA t : tl[t] = lab)
        pick(c) == [p \in 1..Len(ts) |-> z[ts[p]][c]]
    IN  [c \in 1..ncols |-> IF Len(ts) > 0 THEN NpMean(pick(c)) ELSE NaN]

\* state map of label value lab (lab_idx + 1): the mean over the timepoints
\* carrying it, np.zeros when there is none
StateMap(z, tl, lab, ncols) ==
    LET ts == SelectSeq([t \in 1..Len(tl) |-> t], LAMBDA t : tl[t] = lab)
        pick(c) == [p \in 1..Len(ts) |-> z[ts[p]][c]]
    IN  IF Len(ts) > 0 THEN [c \in 1..ncols |-> NpMean(pick(c))]
        ELSE [c \in 1..ncols |-> Zero]

\* np.all(np.isnan(state_mean)); all() of an empty vector is True
AllNaN(v) == \A p \in 1..Len(v) : v[p] = NaN

\* tmp_df: the atlas rows with subject, state and value columns; the value
\* column is assigned by position
TmpDf(atlas, id, state, values) ==
    [p \in 1..Len(atlas) |->
        [ROI |-> atlas[p].ROI, network_id |-> atlas[p].network_id,
         subject |-> id, state |-> state, value |-> values[p]]]

\* the state-map loop of the full script: every state is appended
RECURSIVE StateRowsFull(_, _, _, _, _, _)
StateRowsFull(atlas, id, labs, z, tl, i) ==
    IF i > Len(labs) THEN <<>>
    ELSE TmpDf(atlas, id, labs[i], StateMap(z, tl, i, Len(z[1])))
             \o StateRowsFull(atlas, id, labs, z, tl, i + 1)

\* the state-map loop of the noLIM script: a state whose mean vector is
\* entirely NaN is not appended
RECURSIVE StateRowsNoLIM(_, _, _, _, _, _)
StateRowsNoLIM(atlas, id, labs, z, tl, i) ==
    IF i > Len(labs) THEN <<>>
    ELSE LET sm == StateMap(z, tl, i, Len(z[1]))
         IN  (IF ~AllNaN(sm) THEN TmpDf(atlas, id, labs[i], sm) ELSE <<>>)
                 \o StateRowsNoLIM(atlas, id, labs, z, tl, i + 1)

\* ------------------------------------------------------------------------
\* the extraction scripts, step by step
\* ------------------------------------------------------------------------
\* module setup: the atlas check, and in the noLIM script the lookup of the
\* network to exclude, the filter and the renumbering
Setup ==
    /\ pc = "setup"
    /\ IF ~atlas_exists
          THEN /\ pc' = "raised"
               /\ UNCHANGED <<atlas_order, rois_to_keep_indices, labels, nlabels, roi2id>>
          ELSE IF script = "full"
          THEN /\ atlas_order' = original_atlas_order
               /\ labels' = original_labels
               /\ nlabels' = Len(original_labels)
               /\ roi2id' = Roi2Id(original_atlas_order)
               /\ pc' = "datasets"
               /\ UNCHANGED rois_to_keep_indices
          ELSE IF limbic_id_of(limbic_label_name) = 0
          THEN /\ pc' = "raised"
               /\ UNCHANGED <<atlas_order, rois_to_keep_indices, labels, nlabels, roi2id>>
          ELSE LET kept == FilterAtlas(original_atlas_order,
                                       limbic_id_of(limbic_label_name))
               IN  /\ rois_to_keep_indices' = RoisToKeep(kept)
                   /\ labels' = RemainingLabels(limbic_label_name)
                   /\ nlabels' = Len(RemainingLabels(limbic_label_name))
                   /\ atlas_order' = RemapAtlas(kept)
                   /\ roi2id' = Roi2Id(RemapAtlas(kept))
                   /\ pc' = "datasets"
    /\ UNCHANGED <<configVars, inputVars, loopVars, outputVars>>
    /\ UNCHANGED <<df, activity_thr, temp_label, metricData>>
    /\ UNCHANGED energyVars

\* for dataset in datasets: the subject list is loaded
LoadSubjects ==
    /\ pc = "datasets"
    /\ dataset <= Len(datasets)
    /\ subject_lists[datasets[dataset]].exists
    /\ subjects' = subject_lists[datasets[dataset]].data
    /\ all_states_list' = <<>>
    /\ subj' = 1
    /\ pc' = "subjects"
    /\ UNCHANGED <<configVars, setupVars, inputVars, dataset, ttss, outputVars>>
    /\ UNCHANGED <<classifyVars, metricData>>
    /\ UNCHANGED energyVars

\* the subject list of the dataset is absent: the noLIM script goes on to
\* the next dataset, np.loadtxt of the full script raises
ListMissing ==
    /\ pc = "datasets"
    /\ dataset <= Len(datasets)
    /\ ~subject_lists[datasets[dataset]].exists
    /\ IF script = "noLIM"
          THEN dataset' = dataset + 1 /\ pc' = pc
          ELSE dataset' = dataset /\ pc' = "raised"
    /\ UNCHANGED <<configVars, setupVars, inputVars, subjects, subj, ttss,
                   all_states_list, outputVars>>
    /\ UNCHANGED <<classifyVars, metricData>>
    /\ UNCHANGED energyVars

\* the loop over the datasets is over
Finish ==
    /\ pc = "datasets"
    /\ dataset > Len(datasets)
    /\ pc' = "done"
    /\ UNCHANGED <<extractVars, classifyVars, metricData>>
    /\ UNCHANGED energyVars

\* the activity file of the subject is absent: continue
SkipBold ==
    /\ pc = "subjects"
    /\ subj <= Len(subjects)
    /\ ~bold[subjects[subj]].exists
    /\ subj' = subj + 1
    /\ UNCHANGED <<configVars, setupVars, inputVars, dataset, subjects, ttss,
                   all_states_list, outputVars>>
    /\ UNCHANGED <<pc, classifyVars, metricData>>
    /\ UNCHANGED energyVars

\* read the activity file, keep the cortical columns (in the noLIM script
\* the columns of the atlas rows that are left), z-score every column
LoadBold ==
    /\ pc = "subjects"
    /\ subj <= Len(subjects)
    /\ bold[subjects[subj]].exists
    /\ bold_read' = bold_read \cup {subjects[subj]}
    /\ LET ttss_full == FirstColumns(bold[subjects[subj]].data, NRegions)
       IN  ttss' = IF script = "full"
                   THEN zscore(ttss_full, NRegions)
                   ELSE zscore(TakeColumns(ttss_full, rois_to_keep_indices),
                               Len(rois_to_keep_indices))
    /\ pc' = "label"
    /\ UNCHANGED <<configVars, setupVars, inputVars, dataset, subjects, subj,
                   all_states_list, label_files, csv_files>>
    /\ UNCHANGED <<classifyVars, metricData>>
    /\ UNCHANGED energyVars

\* the labelling loop and np.save of the label sequence
LabelSubject ==
    /\ pc = "label"
    /\ time_labels' =
           IF script = "full"
           THEN LabelAll(ttss, [c \in 1..NRegions |-> NetworkOfColumnFull(roi2id, c)],
                         nlabels, activity_thr)
           ELSE LabelAll(ttss,
                         [c \in 1..Len(atlas_order) |->
                             NetworkOfColumnNoLIM(atlas_order, roi2id, c)],
                         nlabels, activity_thr)
    /\ label_files' = [label_files EXCEPT ![subjects[subj]] = File(time_labels')]
    /\ pc' = "maps"
    /\ UNCHANGED <<configVars, setupVars, inputVars, loopVars, csv_files, bold_read>>
    /\ UNCHANGED <<classifyVars, callVars, sub, listVars, blockVars, tp_matrix, ret, mat>>
    /\ UNCHANGED energyVars

\* the state-map loop: the rows of the subject are appended to the group
\* table
StateMaps ==
    /\ pc = "maps"
    /\ all_states_list' = all_states_list \o
           (IF script = "full"
            THEN StateRowsFull(atlas_order, subjects[subj], labels, ttss, time_labels, 1)
            ELSE StateRowsNoLIM(atlas_order, subjects[subj], labels, ttss, time_labels, 1))
    /\ subj' = subj + 1
    /\ pc' = "subjects"
    /\ UNCHANGED <<configVars, setupVars, inputVars, dataset, subjects, ttss, outputVars>>
    /\ UNCHANGED <<classifyVars, metricData>>
    /\ UNCHANGED energyVars

\* after the last subject: the group table is written (by the noLIM script
\* only when it is not empty)
SaveGroup ==
    /\ pc = "subjects"
    /\ subj > Len(subjects)
    /\ csv_files' = IF script = "full" \/ all_states_list # <<>>
                    THEN [csv_files EXCEPT ![datasets[dataset]] = File(all_states_list)]
                    ELSE csv_files
    /\ dataset' = dataset + 1
    /\ pc' = "datasets"
    /\ UNCHANGED <<configVars, setupVars, inputVars, subjects, subj, ttss,
                   all_states_list, label_files, bold_read>>
    /\ UNCHANGED <<classifyVars, metricData>>
    /\ UNCHANGED energyVars

\* ------------------------------------------------------------------------
\* compute_control_energy_onesub.py: get_control_energy
\* ------------------------------------------------------------------------
\* labels of get_control_energy: the seven networks, without NOTA
EnergyLabels == NetworkNames

\* subj_states_df['state'].unique()
StatesIn(rows) == {rows[p].state : p \in 1..Len(rows)}

\* mutant of PresentLabels: NOTA counts as a label
PresentLabelsWithNOTA(rows) ==
    SelectSeq(EnergyLabels \o <<"NOTA">>, LAMBDA l : l \in StatesIn(rows))

\* [l for l in labels if l in subj_states_df['state'].unique()]
PresentLabels(rows) == SelectSeq(EnergyLabels, LAMBDA l : l \in StatesIn(rows))

\* subj_states_df[subj_states_df['state'] == label]['value'].values
temp_state(rows, label) ==
    LET sel == SelectSeq(rows, LAMBDA r : r.state = label)
    IN  [p \in 1..Len(sel) |-> sel[p].value]

\* assemble_control_tasks: every initial state with every target state
assemble_control_tasks(n) ==
    [k \in 1..(n * n) |->
        [initial_idx |-> (k - 1) \div n, target_idx |-> (k - 1) % n]]

\* lines 76-93: the state file is read and filtered for the subject; the
\* function returns when the file is absent or the subject has no rows
LoadStates ==
    /\ pc = "energy"
    /\ IF ~states_file.exists
          THEN pc' = "skipped" /\ UNCHANGED subj_states_df
          ELSE LET mine == SelectSeq(states_file.data,
                                     LAMBDA r : r.subject = subject_id)
               IN  /\ subj_states_df' = mine
                   /\ pc' = IF mine = <<>> THEN "skipped" ELSE "matrix"
    /\ UNCHANGED <<subject_id, n_roi, states_file, sc_exists, present_labels,
                   states_matrix, control_tasks, energy_file>>
    /\ UNCHANGED <<extractVars, classifyVars, metricData>>

\* lines 95-112: one column per present label; the function returns at the
\* first label whose vector does not have n_roi entries
BuildStatesMatrix ==
    /\ pc = "matrix"
    /\ present_labels' = PresentLabels(subj_states_df)
    /\ IF \E i \in 1..Len(present_labels') :
              Len(temp_state(subj_states_df, present_labels'[i])) # n_roi
          THEN pc' = "skipped" /\ UNCHANGED states_matrix
          ELSE /\ states_matrix' = [i \in 1..Len(present_labels') |->
                                       temp_state(subj_states_df, present_labels'[i])]
               /\ pc' = "sc"
    /\ UNCHANGED <<subject_id, n_roi, states_file, sc_exists, subj_states_df,
                   control_tasks, energy_file>>
    /\ UNCHANGED <<extractVars, classifyVars, metricData>>

\* lines 114-129: the function returns when the connectivity file is
\* absent; else the control tasks are assembled
LoadSC ==
    /\ pc = "sc"
    /\ IF ~sc_exists
          THEN pc' = "skipped" /\ UNCHANGED control_tasks
          ELSE /\ control_tasks' = assemble_control_tasks(Len(states_matrix))
               /\ pc' = "solve"
    /\ UNCHANGED <<subject_id, n_roi, states_file, sc_exists, subj_states_df,
                   present_labels, states_matrix, energy_file>>
    /\ UNCHANGED <<extractVars, classifyVars, metricData>>

\* lines 133-154: the solver of nctpy (not part of src/) gives one energy
\* per task, written as an n_states x n_states table; what it does with an
\* empty task list is not fixed by this repository
ComputeAndSave ==
    /\ pc = "solve"
    /\ \/ /\ energy_file' = File([k \in 1..Len(control_tasks) |-> "E"])
          /\ pc' = "written"
       \/ /\ control_tasks = <<>>
          /\ energy_file' = energy_file
          /\ pc' = "raised"
    /\ UNCHANGED <<subject_id, n_roi, states_file, sc_exists, subj_states_df,
                   present_labels, states_matrix, control_tasks>>
    /\ UNCHANGED <<extractVars, classifyVars, metricData>>

\* ------------------------------------------------------------------------
\* Inputs and specifications
\* ------------------------------------------------------------------------
\* sampling intervals: 1 s and the 0.735 s of __main__
TRSet == {<<1, 1>>, <<147, 200>>}

\* label files: every array of labels 0..MaxStates up to MaxLen entries (0
\* is below every state; for n_states < MaxStates the largest is above)
LabelFiles == {File(a) : a \in SeqsUpTo(0..MaxStates, MaxLen)}

\* subject ids of the extraction runs
SubjectIds == {1, 2}

ExtractStart ==
    /\ atlas_order = <<>>
    /\ rois_to_keep_indices = <<>>
    /\ labels = <<>>
    /\ roi2id = <<>>
    /\ dataset = 1
    /\ subjects = <<>>
    /\ subj = 1
    /\ ttss = <<>>
    /\ all_states_list = <<>>
    /\ label_files = [s \in SubjectIds |-> NoFile]
    /\ csv_files = [d \in {"HC", "MDD"} |-> NoFile]
    /\ bold_read = {}

\* no extraction script is running
ExtractIdle ==
    /\ script = "full"
    /\ atlas_exists = FALSE
    /\ original_atlas_order = <<>>
    /\ limbic_label_name = "Limbic"
    /\ subject_lists = [d \in {"HC", "MDD"} |-> NoFile]
    /\ bold = [s \in SubjectIds |-> NoFile]
    /\ ExtractStart

EnergyStart ==
    /\ subj_states_df = <<>>
    /\ present_labels = <<>>
    /\ states_matrix = <<>>
    /\ control_tasks = <<>>
    /\ energy_file = NoFile

\* get_control_energy is not running
EnergyIdle ==
    /\ subject_id = 1
    /\ n_roi = 0
    /\ states_file = NoFile
    /\ sc_exists = FALSE
    /\ EnergyStart

ClassifyIdle ==
    /\ df = <<>>
    /\ nlabels = 0
    /\ activity_thr = Zero
    /\ temp_label = 0

MetricsStart ==
    /\ pc = "loop"
    /\ sub = 1
    /\ time_labels = <<>>
    /\ fo_list = <<>> /\ dt_list = <<>> /\ ar_list = <<>>
    /\ tp_list = <<>> /\ tp_nopersist_list = <<>>
    /\ block_starts = <<>> /\ block_ends = <<>>
    /\ block_lengths = <<>> /\ block_states = <<>>
    /\ tp_matrix = <<>>
    /\ ret = NoResult
    /\ mat = NoResult

\* one call of the analysis loop on a one-subject cohort
Init ==
    /\ ClassifyIdle
    /\ ExtractIdle
    /\ EnergyIdle
    /\ thre_type \in {"thr_0", "nonthr"}
    /\ subject_list = <<1>>
    /\ files \in [{1} -> LabelFiles \cup {NoFile}]
    /\ n_states \in 1..MaxStates
    /\ tr_duration_s \in TRSet
    /\ total_timepoints \in 1..MaxT
    /\ MetricsStart

MetricsIdle ==
    /\ thre_type = "nonthr"
    /\ subject_list = <<>>
    /\ files = <<>>
    /\ n_states = 0
    /\ tr_duration_s = One
    /\ total_timepoints = 0
    /\ sub = 1
    /\ time_labels = <<>>
    /\ fo_list = <<>> /\ dt_list = <<>> /\ ar_list = <<>>
    /\ tp_list = <<>> /\ tp_nopersist_list = <<>>
    /\ block_starts = <<>> /\ block_ends = <<>>
    /\ block_lengths = <<>> /\ block_states = <<>>
    /\ tp_matrix = <<>>
    /\ ret = NoResult
    /\ mat = NoResult

\* z-scored activity of one region at one timepoint; NaN for a region of
\* zero variance
ValueSet == {<<-1, 1>>, Zero, One, NaN}

\* activation thresholds: the 0 of the scripts and one positive value
ThrSet == {Zero, <<1, 2>>}

\* one timepoint's frame: every region carries a network id and a value
Frames == [1..MaxRois -> [network_id : 1..MaxLabels, value : ValueSet]]

InitClassify ==
    /\ MetricsIdle
    /\ ExtractIdle
    /\ EnergyIdle
    /\ pc = "tr"
    /\ nlabels \in 2..MaxLabels
    /\ df \in Frames
    /\ activity_thr \in ThrSet
    /\ temp_label = 0

NextClassify == LabelTimepoint

SpecClassify == InitClassify /\ [][NextClassify]_vars

\* the worked example: six timepoints, two states, interval 1 s
Scenario1 == <<1, 1, 1, 2, 2, 1>>

\* one call on a one-subject cohort whose label file, if present, holds
\* Len(Scenario1) labels of the two states
InitScenario1 ==
    /\ ClassifyIdle
    /\ ExtractIdle
    /\ EnergyIdle
    /\ thre_type \in {"thr_0", "nonthr"}
    /\ subject_list = <<1>>
    /\ files \in [{1} -> {File(a) : a \in [1..Len(Scenario1) -> 1..2]} \cup {NoFile}]
    /\ n_states = 2
    /\ tr_duration_s = One
    /\ total_timepoints = Len(Scenario1)
    /\ MetricsStart

\* label files of a cohort of two: arrays of labels 1..2, or no file
GroupFiles == {File(a) : a \in SeqsUpTo(1..2, MaxLenGroup)} \cup {NoFile}

\* one call of the analysis loop on a cohort of two subjects, in either order
InitGroup ==
    /\ ClassifyIdle
    /\ ExtractIdle
    /\ EnergyIdle
    /\ thre_type \in {"thr_0", "nonthr"}
    /\ subject_list \in {<<1, 2>>, <<2, 1>>}
    /\ files \in [{1, 2} -> GroupFiles]
    /\ n_states \in 1..MaxStates
    /\ tr_duration_s \in TRSet
    /\ total_timepoints \in 1..(MaxLenGroup + 1)
    /\ MetricsStart

Next ==
    \/ SkipMissing
    \/ LoadLabels
    \/ ComputeFO
    \/ ComputeBlocks
    \/ ComputeDTAR
    \/ ComputeTP
    \/ Return
    \/ RemoveNOTAAndSave

Spec == Init /\ [][Next]_vars

SpecScenario1 == InitScenario1 /\ [][Next]_vars

SpecGroup == InitGroup /\ [][Next]_vars

Perms(n) == {f \in [1..n -> 1..n] : \A a, b \in 1..n : a # b => f[a] # f[b]}

\* network of region r in the reference atlas of the model
CanonicalNetwork(r) == ((r - 1) % (MaxLabels - 1)) + 1

\* atlas files: one row per region 1..NRegions; the rows in any order with
\* the reference networks, or sorted by region with any networks
AtlasFiles ==
    {[p \in 1..NRegions |-> [ROI |-> f[p], network_id |-> CanonicalNetwork(f[p])]] :
        f \in Perms(NRegions)}
    \cup
    {[p \in 1..NRegions |-> [ROI |-> p, network_id |-> g[p]]] :
        g \in [1..NRegions -> 1..(MaxLabels - 1)]}

SortedAtlas == [p \in 1..NRegions |-> [ROI |-> p, network_id |-> CanonicalNetwork(p)]]

\* activity files: 1..MaxLenGroup timepoints, NRegions cortical columns of
\* raw values 0 or 1 followed by one subcortical column; only matrices
\* whose columns have a rational standard deviation
BoldMatrices ==
    UNION {{m \in [1..T -> [1..(NRegions + 1) -> 0..1]] :
               /\ \A t \in 1..T : m[t][NRegions + 1] = 0
               /\ \A c \in 1..NRegions :
                      HasRationalStd([t \in 1..T |-> Rat(m[t][c], 1)])} :
           T \in 1..MaxLenGroup}

BoldFiles == {File(m) : m \in BoldMatrices} \cup {NoFile}

\* names the noLIM script may be configured to exclude: every network of
\* original_labels, and 'Limbic', which may not be among them
ExcludedNames == {original_labels[p] : p \in 1..(MaxLabels - 1)} \cup {"Limbic"}

\* one subject, every atlas file and every configuration
InitExtractOne ==
    /\ script \in {"full", "noLIM"}
    /\ atlas_exists \in BOOLEAN
    /\ original_atlas_order \in (IF atlas_exists THEN AtlasFiles ELSE {<<>>})
    /\ limbic_label_name \in (IF script = "full" THEN {"Limbic"} ELSE ExcludedNames)
    /\ subject_lists \in {[d \in {"HC", "MDD"} |-> IF d = "HC" THEN File(<<1>>) ELSE File(<<>>)],
                          [d \in {"HC", "MDD"} |-> IF d = "HC" THEN NoFile ELSE File(<<1>>)]}
    /\ bold \in {b \in [SubjectIds -> BoldFiles] : b[2] = NoFile}

\* two subjects in one dataset or one in each, in either order, with the
\* reference atlas; the noLIM script excludes the first network
InitExtractTwo ==
    /\ script \in {"full", "noLIM"}
    /\ atlas_exists = TRUE
    /\ original_atlas_order = SortedAtlas
    /\ limbic_label_name = (IF script = "full" THEN "Limbic" ELSE original_labels[1])
    /\ subject_lists \in {[d \in {"HC", "MDD"} |-> IF d = "HC" THEN File(<<1, 2>>) ELSE File(<<>>)],
                          [d \in {"HC", "MDD"} |-> IF d = "HC" THEN File(<<2, 1>>) ELSE File(<<>>)],
                          [d \in {"HC", "MDD"} |-> IF d = "HC" THEN File(<<1>>) ELSE File(<<2>>)],
                          [d \in {"HC", "MDD"} |-> IF d = "HC" THEN File(<<2>>) ELSE File(<<1>>)]}
    /\ bold \in [SubjectIds -> BoldFiles]

InitExtract ==
    /\ ClassifyIdle
    /\ MetricsIdle
    /\ EnergyIdle
    /\ pc = "setup"
    /\ ExtractStart
    /\ (InitExtractOne \/ InitExtractTwo)

NextExtract ==
    \/ Setup
    \/ LoadSubjects
    \/ ListMissing
    \/ Finish
    \/ SkipBold
    \/ LoadBold
    \/ LabelSubject
    \/ StateMaps
    \/ SaveGroup

SpecExtract == InitExtract /\ [][NextExtract]_vars

\* activity files of the second subject of a pair: none, one timepoint, or
\* two timepoints in which every cortical region rises from 0 to 1
OtherBoldFiles ==
    {NoFile,
     File(<<[c \in 1..(NRegions + 1) |-> 0]>>),
     File(<<[c \in 1..(NRegions + 1) |-> 0],
            [c \in 1..(NRegions + 1) |-> IF c <= NRegions THEN 1 ELSE 0]>>)}

\* an extraction run over a pair of subjects: subject 1 with every activity
\* file, subject 2 with one of OtherBoldFiles, listed in either order in one
\* dataset or one in each
InitExtractPair ==
    /\ ClassifyIdle
    /\ MetricsIdle
    /\ EnergyIdle
    /\ pc = "setup"
    /\ ExtractStart
    /\ script \in {"full", "noLIM"}
    /\ atlas_exists = TRUE
    /\ original_atlas_order = SortedAtlas
    /\ limbic_label_name = (IF script = "full" THEN "Limbic" ELSE original_labels[1])
    /\ subject_lists \in {[d \in {"HC", "MDD"} |-> IF d = "HC" THEN File(<<1, 2>>) ELSE File(<<>>)],
                          [d \in {"HC", "MDD"} |-> IF d = "HC" THEN File(<<2, 1>>) ELSE File(<<>>)],
                          [d \in {"HC", "MDD"} |-> IF d = "HC" THEN File(<<1>>) ELSE File(<<2>>)],
                          [d \in {"HC", "MDD"} |-> IF d = "HC" THEN File(<<2>>) ELSE NoFile]}
    /\ bold \in {b \in [SubjectIds -> BoldFiles] : b[2] \in OtherBoldFiles}

\* a run of either program: the metrics call on a cohort of two, or one of
\* the extraction scripts on a pair of subjects
InitAll == InitGroup \/ InitExtractPair

NextAll == Next \/ NextExtract

SpecAll == InitAll /\ [][NextAll]_vars

\* rows of a group table: cnt[s][k] rows of subject s for the k-th name of
\* original_labels, whose value is k
RECURSIVE RowsFrom(_, _, _)
RowsFrom(cnt, s, k) ==
    IF s > Cardinality(SubjectIds) THEN <<>>
    ELSE IF k > Len(original_labels) THEN RowsFrom(cnt, s + 1, 1)
    ELSE [p \in 1..cnt[s][k] |->
             [subject |-> s, state |-> original_labels[k], value |-> Rat(k, 1)]]
         \o RowsFrom(cnt, s, k + 1)

\* group tables: for subject 1, 0..NRegions+1 rows of every state; for
\* subject 2 either no row or NRegions rows of every state
StateFiles ==
    {File(RowsFrom(<<c, [k \in 1..Len(original_labels) |-> o]>>, 1, 1)) :
        c \in [1..Len(original_labels) -> 0..(NRegions + 1)],
        o \in {0, NRegions}}
    \cup {NoFile}

\* one call of get_control_energy for either subject
InitEnergy ==
    /\ ClassifyIdle
    /\ MetricsIdle
    /\ ExtractIdle
    /\ pc = "energy"
    /\ subject_id \in SubjectIds
    /\ n_roi \in {NRegions, NRegions + 1}
    /\ states_file \in StateFiles
    /\ sc_exists \in BOOLEAN
    /\ EnergyStart

NextEnergy ==
    \/ LoadStates
    \/ BuildStatesMatrix
    \/ LoadSC
    \/ ComputeAndSave

SpecEnergy == InitEnergy /\ [][NextEnergy]_vars

\* ------------------------------------------------------------------------
\* Properties
\* ------------------------------------------------------------------------
AllDefined(a) == \A p \in 1..Len(a) : a[p] # NaN

Last(list) == list[Len(list)]

\* the label array has the configured number of timepoints
FullLength == Len(time_labels) = total_timepoints

\* timepoints (1-based) whose label is i
Labelled(i) == {p \in 1..Len(time_labels) : time_labels[p] = i}

\* timepoints (1-based) at which a run of label i begins
RunStarts(i) ==
    {p \in Labelled(i) : p = 1 \/ time_labels[p - 1] # i}

IsNumber(x) == x[2] > 0

AllZero(row) == \A j \in 1..Len(row) : row[j] = Zero

AllNumbers(row) == \A j \in 1..Len(row) : IsNumber(row[j])

\* the current subject's FO has just been appended
FODone == pc = "blocks"

\* the current subject's blocks have just been derived
BlocksDone == pc = "dtar"

\* the current subject's DT and AR have just been appended
DTARDone == pc = "tp"

\* the last subject loaded (time_labels) has its TP matrices appended
TPDone == pc \in {"loop", "returned", "saved"} /\ tp_list # <<>>

\* C2: for a label array of length T = total_timepoints and n_states = K,
\* FO of state i is (number of timepoints labelled i) / T for every i in
\* 1..K, and the K values sum to 1 minus the fraction of timepoints whose
\* label is outside [1,K]; the sum is exactly 1 when every label is in [1,K].
C2_FractionalOccupancy ==
    FODone =>
        LET f == Last(fo_list)
            outside == {p \in 1..Len(time_labels) : time_labels[p] \notin 1..n_states}
        IN  /\ Len(f) = n_states
            /\ \A i \in 1..n_states :
                  /\ IsNumber(f[i])
                  /\ f[i][1] * total_timepoints = Cardinality(Labelled(i)) * f[i][2]
            /\ FullLength =>
                  /\ RatAdd(RatSum(f), Rat(Cardinality(outside), total_timepoints)) = One
                  /\ (outside = {} => RatSum(f) = One)

\* a full-length array with labels below and above [1,K] and half of its
\* timepoints in range
C2_Witness ==
    /\ FODone
    /\ FullLength
    /\ Len(time_labels) = 4
    /\ \E p, q \in 1..4 : time_labels[p] = 0 /\ time_labels[q] = n_states + 1
    /\ RatSum(Last(fo_list)) = <<1, 2>>

\* C3: every row of the self-inclusive TP matrix and every row of the
\* self-exclusive one (diagonal zeroed before normalisation) holds numbers
\* only and either sums to 1 or is entirely zero; a row whose count sum is
\* zero is all-zero.
C3_RowsStochasticOrZero ==
    TPDone =>
        LET tp == Last(tp_list)
            tpn == Last(tp_nopersist_list)
            offdiag(i) == SeqSum(tp_matrix[i]) - tp_matrix[i][i]
        IN  \A i \in 1..n_states :
              /\ AllNumbers(tp[i]) /\ AllNumbers(tpn[i])
              /\ RatSum(tp[i]) = One \/ AllZero(tp[i])
              /\ RatSum(tpn[i]) = One \/ AllZero(tpn[i])
              /\ SeqSum(tp_matrix[i]) = 0 => AllZero(tp[i])
              /\ offdiag(i) = 0 => AllZero(tpn[i])

\* one state has only self-transitions (row sums to 1 with them, all-zero
\* without), one state moves to two different states, one has no counts
C3_Witness ==
    /\ TPDone
    /\ n_states = 3
    /\ \E i, k, z \in 1..3 :
          /\ Last(tp_list)[i][i] = One /\ AllZero(Last(tp_nopersist_list)[i])
          /\ \E j \in 1..3 : Last(tp_list)[k][j] = <<1, 2>> /\ RatSum(Last(tp_list)[k]) = One
          /\ SeqSum(tp_matrix[z]) = 0 /\ AllZero(Last(tp_list)[z])

\* the adjacent pairs (t, t+1) among the first total_timepoints - 1 that
\* start in state i and end in a label of [1,K]
CountedOut(i) ==
    {t \in 1..(total_timepoints - 1) :
        time_labels[t] = i /\ time_labels[t + 1] \in 1..n_states}

\* C4 as stated: a row of the TP matrix is all-zero only for a state that
\* has no occurrence, and the row of every state that occurs sums to 1.
C4_AsStated ==
    TPDone =>
        \A i \in 1..n_states :
            /\ Labelled(i) # {} => RatSum(Last(tp_list)[i]) = One
            /\ AllZero(Last(tp_list)[i]) => Labelled(i) = {}

\* C4 (amended): a row of the TP matrix sums to 1 exactly when its state has
\* a counted outgoing transition (an adjacent pair that starts in the state
\* and ends in a label of [1,K]) and is all-zero otherwise; in particular the
\* row of a state that never occurs is all-zero.
C4_RowZeroIffNoOutgoing ==
    TPDone =>
        \A i \in 1..n_states :
            /\ CountedOut(i) # {} => RatSum(Last(tp_list)[i]) = One
            /\ CountedOut(i) = {} => AllZero(Last(tp_list)[i])
            /\ Labelled(i) = {} => AllZero(Last(tp_list)[i])

\* a state that occurs only at the last timepoint has an all-zero row and
\* another row sums to 1
C4_Witness ==
    /\ TPDone
    /\ FullLength
    /\ \E i, k \in 1..n_states :
          /\ Labelled(i) = {Len(time_labels)} /\ AllZero(Last(tp_list)[i])
          /\ RatSum(Last(tp_list)[k]) = One

NBlocks == Len(block_starts)

\* C5: for a label array of length T = total_timepoints the blocks are spans
\* [start, end) that are non-empty, consecutive (each starts where the
\* previous one ends, the first at 0, the last ending at T), carry a single
\* label inside each span and different labels in adjacent spans; the span
\* lengths sum to T.
C5_BlockDecomposition ==
    (BlocksDone /\ FullLength) =>
        /\ NBlocks >= 1
        /\ Len(block_ends) = NBlocks
        /\ Len(block_lengths) = NBlocks
        /\ Len(block_states) = NBlocks
        /\ block_starts[1] = 0
        /\ block_ends[NBlocks] = Len(time_labels)
        /\ \A b \in 1..NBlocks :
              /\ block_starts[b] < block_ends[b]
              /\ block_lengths[b] = block_ends[b] - block_starts[b]
              /\ \A p \in block_starts[b]..(block_ends[b] - 1) :
                    time_labels[p + 1] = block_states[b] + 1
        /\ \A b \in 1..(NBlocks - 1) :
              /\ block_ends[b] = block_starts[b + 1]
              /\ block_states[b] # block_states[b + 1]
        /\ SeqSum(block_lengths) = Len(time_labels)

\* a full-length array of four labels in three blocks, the first of length 2
C5_Witness ==
    /\ BlocksDone
    /\ FullLength
    /\ Len(time_labels) = 4
    /\ block_starts = <<0, 2, 3>>
    /\ block_ends = <<2, 3, 4>>

\* each block's label repeated for the block's length
RECURSIVE Expand(_, _)
Expand(states, lens) ==
    IF states = <<>> THEN <<>>
    ELSE [k \in 1..Head(lens) |-> Head(states) + 1] \o Expand(Tail(states), Tail(lens))

\* C6: for a label array of length T = total_timepoints, expanding its blocks
\* back into an array and decomposing that array again yields the same block
\* starts, ends and labels.
C6_BlocksIdempotent ==
    (BlocksDone /\ FullLength) =>
        LET e == Expand(block_states, block_lengths)
            starts == BlockStarts(e)
        IN  /\ Len(e) = total_timepoints
            /\ starts = block_starts
            /\ BlockEnds(e, total_timepoints) = block_ends
            /\ BlockStates(e, starts) = block_states

\* a full-length array with at least two blocks, one of them longer than 1,
\* has been decomposed
C6_Witness ==
    /\ BlocksDone
    /\ FullLength
    /\ NBlocks >= 2
    /\ \E b \in 1..NBlocks : block_lengths[b] >= 2
    /\ Expand(block_states, block_lengths) = time_labels

\* C7: for a label array of length T = total_timepoints and every state i in
\* 1..K, Dwell Time of i is the mean length of the runs labelled i (timepoints
\* labelled i over the number of runs) times the sampling interval, and is
\* the number 0 when no run is labelled i.
C7_DwellTime ==
    (DTARDone /\ FullLength) =>
        LET dt == Last(dt_list)
        IN  /\ Len(dt) = n_states
            /\ \A i \in 1..n_states :
                  LET runs == Cardinality(RunStarts(i))
                      points == Cardinality(Labelled(i))
                  IN  /\ IsNumber(dt[i])
                      /\ runs = 0 => dt[i] = Zero
                      /\ runs > 0 => dt[i] = RatMul(Rat(points, runs), tr_duration_s)

\* a state with two runs of different lengths, a state of 1..K without any
\* run, and an interval other than 1 s
C7_Witness ==
    /\ DTARDone
    /\ FullLength
    /\ tr_duration_s # One
    /\ \E i, z \in 1..n_states :
          /\ Cardinality(RunStarts(i)) = 2 /\ Cardinality(Labelled(i)) = 3
          /\ Labelled(z) = {} /\ Last(dt_list)[z] = Zero

\* C8: for every state i in 1..K, Appearance Rate of i is the number of runs
\* labelled i divided by the scan duration in minutes (total_timepoints x
\* interval / 60), and is the number 0 when no run is labelled i.
C8_AppearanceRate ==
    DTARDone =>
        LET ar == Last(ar_list)
        IN  /\ Len(ar) = n_states
            /\ \A i \in 1..n_states :
                  LET runs == Cardinality(RunStarts(i))
                  IN  /\ IsNumber(ar[i])
                      /\ runs = 0 => ar[i] = Zero
                      /\ RatMul(ar[i], RatMul(Rat(total_timepoints, 1), tr_duration_s))
                            = Rat(60 * runs, 1)

\* a state with two runs in a scan of 4 timepoints of 0.735 s: 2 / 0.049 min
C8_Witness ==
    /\ DTARDone
    /\ FullLength
    /\ total_timepoints = 4
    /\ tr_duration_s = <<147, 200>>
    /\ \E i, z \in 1..n_states :
          /\ Cardinality(RunStarts(i)) = 2 /\ Last(ar_list)[i] = <<2000, 49>>
          /\ Labelled(z) = {} /\ Last(ar_list)[z] = Zero

\* C9 as stated: for [1,1,1,2,2,1], K = 2, interval 1 s, 6 timepoints, Dwell
\* Time is 2 s for state 1 and 1 s for state 2.
C9_AsStated ==
    (DTARDone /\ time_labels = Scenario1) => Last(dt_list) = <<<<2, 1>>, <<1, 1>>>>

\* C9 (amended): for [1,1,1,2,2,1], K = 2, interval 1 s, 6 timepoints, Dwell
\* Time is 2 s for state 1 (mean of block lengths 3 and 1) and 2 s for state 2
\* (its one block [3,5) has length 2).
C9_Scenario1DwellTime ==
    (DTARDone /\ time_labels = Scenario1) => Last(dt_list) = <<<<2, 1>>, <<2, 1>>>>

\* the worked example has been decomposed into blocks [0,3), [3,5), [5,6) of
\* states 1, 2, 1 and its dwell times appended
C9_Witness ==
    /\ DTARDone
    /\ time_labels = Scenario1
    /\ n_states = 2 /\ tr_duration_s = One /\ total_timepoints = 6
    /\ block_starts = <<0, 3, 5>>
    /\ block_ends = <<3, 5, 6>>
    /\ block_states = <<0, 1, 0>>
    /\ Len(dt_list) = 1

\* the per-subject results of one label array under n states, stacked as
\* calculate_dynamics_for_group returns them for a one-subject cohort
ResultsUnder(lab, n) ==
    LET starts == BlockStarts(lab)
        lens == BlockLengths(starts, BlockEnds(lab, total_timepoints))
        states == BlockStates(lab, starts)
        counts == TpCounts(lab, n, total_timepoints)
    IN  [fo |-> StackT(<<fo(lab, n, total_timepoints)>>, n),
         dt |-> StackT(<<dt_subject(lens, states, n, tr_duration_s)>>, n),
         ar |-> StackT(<<ar_subject(lens, states, n, total_timepoints,
                                    tr_duration_s)>>, n),
         tp |-> <<tp2d(counts)>>,
         tp_nopersist |-> <<tp2d_nopersist(counts)>>]

\* C10: for a label array whose labels all lie in 1..K-1, the results saved
\* for 'thr_0' (computed with n_states = K, then last vector entry and last
\* matrix row and column removed) are exactly the results of the same array
\* computed with n_states = K-1.
C10_HarmonizationRoundTrip ==
    ( /\ pc = "saved"
      /\ thre_type = "thr_0"
      /\ Len(subject_list) = 1
      /\ \A p \in 1..Len(time_labels) : time_labels[p] \in 1..(n_states - 1) )
    => mat = ResultsUnder(time_labels, n_states - 1)

\* a 'thr_0' run with K = 3 on a full-length array that visits states 1 and 2
\* (never 3) has been saved with 2 states left
C10_Witness ==
    /\ pc = "saved"
    /\ thre_type = "thr_0"
    /\ n_states = 3
    /\ FullLength
    /\ Labelled(1) # {} /\ Labelled(2) # {}
    /\ Labelled(1) \cup Labelled(2) = 1..Len(time_labels)
    /\ Len(mat.fo) = 2
    /\ Len(mat.tp[1]) = 2 /\ Len(mat.tp[1][1]) = 2
    /\ RatSum(mat.tp[1][1]) = One

\* sum of the entries of a matrix of counts
MatrixTotal(m) == SeqSum([i \in 1..Len(m) |-> SeqSum(m[i])])

\* the adjacent pairs (t, t+1) read by the counting loop
LoopPairs == 1..(total_timepoints - 1)

\* C15: a pair (label at t, label at t+1) with a label outside [1,K] adds
\* nothing to the count matrix, every pair with both labels in [1,K] adds
\* exactly 1 to the entry (from, to), self-transitions included, so the
\* matrix total is the number of pairs with both labels in range (the pairs
\* are the total_timepoints - 1 adjacent pairs the loop reads).
C15_TransitionCounts ==
    TPDone =>
        LET inrange == {t \in LoopPairs : time_labels[t] \in 1..n_states
                                          /\ time_labels[t + 1] \in 1..n_states}
        IN  /\ Len(tp_matrix) = n_states
            /\ \A i, j \in 1..n_states :
                  tp_matrix[i][j] = Cardinality({t \in LoopPairs :
                        time_labels[t] = i /\ time_labels[t + 1] = j})
            /\ MatrixTotal(tp_matrix) = Cardinality(inrange)

\* a full-length array with a self-transition, a pair leaving the range
\* below (label 0) and a pair leaving it above (label K+1) has been counted
\* without an error: one count only
C15_Witness ==
    /\ TPDone
    /\ FullLength
    /\ Len(time_labels) = 4
    /\ \E i \in 1..n_states : time_labels[1] = i /\ time_labels[2] = i
    /\ time_labels[3] = 0
    /\ time_labels[4] = n_states + 1
    /\ MatrixTotal(tp_matrix) = 1

\* the subjects of the list whose label file exists, in list order
Kept == SelectSeq(subject_list, LAMBDA s : files[s].exists)

Returned == pc \in {"returned", "saved"}

\* every label file that exists has total_timepoints entries
AllFullLength ==
    \A p \in 1..Len(subject_list) :
        files[subject_list[p]].exists =>
            Len(files[subject_list[p]].data) = total_timepoints

\* C13 as stated: when a label file is missing (the files that exist being
\* of full length) the call returns without raising, and each returned group
\* tensor has one subject entry per subject whose file exists.
C13_AsStated ==
    ( /\ \E p \in 1..Len(subject_list) : ~files[subject_list[p]].exists
      /\ AllFullLength )
    => /\ pc # "raised"
       /\ Returned =>
             /\ Len(ret.tp) = Len(Kept)
             /\ Len(ret.tp_nopersist) = Len(Kept)
             /\ \A i \in 1..n_states :
                   /\ Len(ret.fo[i]) = Len(Kept)
                   /\ Len(ret.dt[i]) = Len(Kept)
                   /\ Len(ret.ar[i]) = Len(Kept)

\* what the code computes for one label array
FoOf(lab) == fo(lab, n_states, total_timepoints)
DtOf(lab) ==
    LET starts == BlockStarts(lab)
    IN  dt_subject(BlockLengths(starts, BlockEnds(lab, total_timepoints)),
                   BlockStates(lab, starts), n_states, tr_duration_s)
ArOf(lab) ==
    LET starts == BlockStarts(lab)
    IN  ar_subject(BlockLengths(starts, BlockEnds(lab, total_timepoints)),
                   BlockStates(lab, starts), n_states, total_timepoints,
                   tr_duration_s)
TpOf(lab) == tp2d(TpCounts(lab, n_states, total_timepoints))
TpNoPersistOf(lab) == tp2d_nopersist(TpCounts(lab, n_states, total_timepoints))

\* C14: the returned FO, DT and AR are indexed (state, subject), both TP
\* tensors (subject, state, state), and in all five position p holds the
\* results of the p-th subject of the list whose file exists.
C14_TensorAxesAndOrder ==
    Returned =>
        /\ Len(ret.fo) = n_states /\ Len(ret.dt) = n_states /\ Len(ret.ar) = n_states
        /\ Len(ret.tp) = Len(Kept) /\ Len(ret.tp_nopersist) = Len(Kept)
        /\ \A i \in 1..n_states :
              /\ Len(ret.fo[i]) = Len(Kept)
              /\ Len(ret.dt[i]) = Len(Kept)
              /\ Len(ret.ar[i]) = Len(Kept)
        /\ \A p \in 1..Len(Kept) :
              LET lab == files[Kept[p]].data
              IN  /\ Len(ret.tp[p]) = n_states
                  /\ Len(ret.tp_nopersist[p]) = n_states
                  /\ ret.tp[p] = TpOf(lab)
                  /\ ret.tp_nopersist[p] = TpNoPersistOf(lab)
                  /\ \A i \in 1..n_states :
                        /\ ret.fo[i][p] = FoOf(lab)[i]
                        /\ ret.dt[i][p] = DtOf(lab)[i]
                        /\ ret.ar[i][p] = ArOf(lab)[i]

\* the list is <<2, 1>>, both files exist with different occupancies, three
\* states: column 1 of every tensor is subject 2, column 2 is subject 1
C14_Witness ==
    /\ Returned
    /\ subject_list = <<2, 1>>
    /\ n_states = 3
    /\ Len(Kept) = 2
    /\ FoOf(files[1].data) # FoOf(files[2].data)
    /\ TpOf(files[1].data) # TpOf(files[2].data)
    /\ ret.fo[1] = <<FoOf(files[2].data)[1], FoOf(files[1].data)[1]>>
    /\ ret.tp = <<TpOf(files[2].data), TpOf(files[1].data)>>

\* C18 as stated: a subject whose label array has a length other than
\* total_timepoints does not abort the cohort.
C18_AsStated ==
    ~( /\ pc = "raised"
       /\ sub <= Len(subject_list)
       /\ Len(time_labels) # total_timepoints )

\* the atlas file gives every network 1..MaxLabels-1 at least one region
IsKNetworkMap(atlas) ==
    {atlas[p].network_id : p \in 1..Len(atlas)} = 1..(MaxLabels - 1)

SetupDone == pc \notin {"setup", "raised"}

\* network of region r in the atlas file
OriginalNetwork(r) == Roi2Id(original_atlas_order)[r]

ConfigError ==
    \/ ~atlas_exists
    \/ script = "noLIM" /\ \A p \in 1..Len(original_labels) :
                               original_labels[p] # limbic_label_name

\* C12: with a configuration error the run is either still before its setup
\* or has raised, and at no time has a subject list or an activity file
\* been read, a label sequence been saved or a group table been written,
\* for either dataset.
C12_ConfigErrorsFatalFirst ==
    ConfigError =>
        /\ pc \in {"setup", "raised"}
        /\ dataset = 1
        /\ subjects = <<>>
        /\ bold_read = {}
        /\ ttss = <<>>
        /\ \A s \in SubjectIds : label_files[s] = NoFile
        /\ \A d \in {"HC", "MDD"} : csv_files[d] = NoFile

\* the noLIM script has raised on a name that is not a label, with the atlas
\* file present and a listed subject whose activity file exists
C12_Witness ==
    /\ pc = "raised"
    /\ ConfigError
    /\ atlas_exists
    /\ \E d \in {"HC", "MDD"} :
           /\ subject_lists[d].exists
           /\ \E p \in 1..Len(subject_lists[d].data) :
                  bold[subject_lists[d].data[p]].exists

\* the subject before position subj has just been processed: its activity
\* file exists, ttss and time_labels are still its own
JustProcessed ==
    /\ pc = "subjects"
    /\ subj > 1
    /\ bold[subjects[subj - 1]].exists

\* rows of the group table for one subject and one state name
RowsOf(table, id, name) ==
    SelectSeq(table, LAMBDA r : r.subject = id /\ r.state = name)

RowsOfSubject(table, id) == SelectSeq(table, LAMBDA r : r.subject = id)

\* timepoints of the current subject that carry label value k
Carrying(k) == {t \in 1..Len(time_labels) : time_labels[t] = k}

RECURSIVE SumOver(_, _)
SumOver(S, c) ==
    IF S = {} THEN Zero
    ELSE LET t == CHOOSE x \in S : TRUE
         IN  RatAdd(ttss[t][c], SumOver(S \ {t}, c))

\* mean activity of column c of ttss over the timepoints carrying k: 0 when
\* there is none, missing when one of the values is
MeanOverCarrying(k, c) ==
    IF Carrying(k) = {} THEN Zero
    ELSE IF \E t \in Carrying(k) : ttss[t][c] = NaN THEN NaN
    ELSE RatDiv(SumOver(Carrying(k), c), Rat(Cardinality(Carrying(k)), 1))

\* number of columns of ttss, the R of the state maps
RegionCount == Len(atlas_order)

StateVector(k) == [c \in 1..RegionCount |-> MeanOverCarrying(k, c)]

\* states of the current subject whose vector is entirely missing
DroppedStates ==
    {k \in 1..Len(labels) : \A c \in 1..RegionCount : StateVector(k)[c] = NaN}

\* C16 as stated: every processed subject has (number of labels) x R rows
C16_AsStated ==
    JustProcessed =>
        Len(RowsOfSubject(all_states_list, subjects[subj - 1])) =
            Len(labels) * RegionCount

\* C16: for a subject that has just been processed and every state k of the
\* label set, NOTA included, the rows of (subject, state) in the group table
\* are either none or R rows whose values are the mean of ttss over the
\* timepoints carrying k, all zero when there is none.  The full script
\* appends every state, so the subject has (number of labels) x R rows; the
\* noLIM script leaves out exactly the states whose vector is entirely
\* missing, so the subject has (number of labels - dropped states) x R rows.
C16_StateMaps ==
    JustProcessed =>
        LET id == subjects[subj - 1]
            kept == IF script = "full" THEN 1..Len(labels)
                    ELSE (1..Len(labels)) \ DroppedStates
        IN  /\ \A t \in 1..Len(ttss) : Len(ttss[t]) = RegionCount
            /\ \A k \in 1..Len(labels) :
                   LET rows == RowsOf(all_states_list, id, labels[k])
                   IN  IF k \in kept
                       THEN /\ Len(rows) = RegionCount
                            /\ \A p \in 1..RegionCount :
                                   rows[p].value = StateVector(k)[p]
                            /\ Carrying(k) = {} =>
                                   \A p \in 1..RegionCount : rows[p].value = Zero
                       ELSE rows = <<>>
            /\ Len(RowsOfSubject(all_states_list, id)) =
                   Cardinality(kept) * RegionCount

\* a processed subject with regions, one state that no timepoint carries and
\* one state with a defined mean
C16_Witness ==
    /\ JustProcessed
    /\ RegionCount > 0
    /\ \E k \in 1..Len(labels) : Carrying(k) = {}
    /\ \E k \in 1..Len(labels) :
           /\ Carrying(k) # {}
           /\ \A c \in 1..RegionCount : StateVector(k)[c] # NaN

\* z-scored activity of a subject, column r for region r (column r - 1 of
\* the activity file, 0-based)
ZRegion(id) == zscore(FirstColumns(bold[id].data, NRegions), NRegions)

RECURSIVE SumRegion(_, _, _)
SumRegion(z, S, r) ==
    IF S = {} THEN Zero
    ELSE LET t == CHOOSE x \in S : TRUE
         IN  RatAdd(z[t][r], SumRegion(z, S \ {t}, r))

\* mean activity of region r itself over the timepoints carrying k
RegionMean(id, k, r) ==
    LET z == ZRegion(id)
    IN  IF Carrying(k) = {} THEN Zero
        ELSE IF \E t \in Carrying(k) : z[t][r] = NaN THEN NaN
        ELSE RatDiv(SumRegion(z, Carrying(k), r), Rat(Cardinality(Carrying(k)), 1))

StateIndex(name) == CHOOSE k \in 1..Len(labels) : labels[k] = name

\* identifier, in the label list in use, of the network the atlas file
\* gives region r
NetworkOfRegion(r) == StateIndex(original_labels[OriginalNetwork(r)])

\* C20 as stated: in the rows of a subject that has just been processed, the
\* value of the row of region r and state k is the mean of region r's own
\* column over the timepoints carrying k, and the network identifier is the
\* one of region r, whatever the order of the rows of the atlas file.
C20_AsStated ==
    JustProcessed =>
        \A p \in 1..Len(all_states_list) :
            LET row == all_states_list[p]
            IN  row.subject = subjects[subj - 1] =>
                    /\ row.value = RegionMean(row.subject, StateIndex(row.state), row.ROI)
                    /\ row.network_id = NetworkOfRegion(row.ROI)

\* what the extraction scripts compute from one subject's activity file and
\* the configuration left by the setup
ZOf(s) ==
    LET ttss_full == FirstColumns(bold[s].data, NRegions)
    IN  IF script = "full" THEN zscore(ttss_full, NRegions)
        ELSE zscore(TakeColumns(ttss_full, rois_to_keep_indices),
                    Len(rois_to_keep_indices))

LabelsFrom(z) ==
    IF script = "full"
    THEN LabelAll(z, [c \in 1..NRegions |-> NetworkOfColumnFull(roi2id, c)],
                  nlabels, activity_thr)
    ELSE LabelAll(z,
                  [c \in 1..Len(atlas_order) |->
                      NetworkOfColumnNoLIM(atlas_order, roi2id, c)],
                  nlabels, activity_thr)

StateRowsFrom(s, z, tl) ==
    IF script = "full"
    THEN StateRowsFull(atlas_order, s, labels, z, tl, 1)
    ELSE StateRowsNoLIM(atlas_order, s, labels, z, tl, 1)

\* subjects of the current dataset whose state maps are in the group table
MapsDone(s) ==
    \E p \in 1..Len(subjects) :
        subjects[p] = s /\ p < subj /\ bold[s].exists

\* subjects of dataset d that have an activity file
Processed(d, s) ==
    \E p \in 1..Len(subject_lists[d].data) :
        subject_lists[d].data[p] = s /\ bold[s].exists

\* the saved label sequence of subject s and its rows of the group tables
\* are the labelling and the state maps of its own activity file; there are
\* none without an activity file or before the setup has set the labels
OwnExtraction(s) ==
    IF ~bold[s].exists \/ labels = <<>>
    THEN /\ ~label_files[s].exists
         /\ RowsOfSubject(all_states_list, s) = <<>>
         /\ \A d \in {"HC", "MDD"} : RowsOfSubject(csv_files[d].data, s) = <<>>
    ELSE \E z \in {ZOf(s)} : \E tl \in {LabelsFrom(z)} :
         \E own \in {StateRowsFrom(s, z, tl)} :
             /\ label_files[s].exists => label_files[s].data = tl
             /\ RowsOfSubject(all_states_list, s) =
                    (IF MapsDone(s) THEN own ELSE <<>>)
             /\ \A d \in {"HC", "MDD"} :
                    csv_files[d].exists =>
                        RowsOfSubject(csv_files[d].data, s) =
                            (IF Processed(d, s) THEN own ELSE <<>>)

\* C17: at every point of a run, whatever the other subjects of the list are
\* (present, missing, before or after), every value held for a subject is
\* the value the code computes from that subject's own file and the
\* configuration alone: each entry of the five metric lists is the metric of
\* the label file of the subject it belongs to, each saved label sequence is
\* the labelling of the subject's own activity file, and the subject's rows
\* of the group table, in memory and on file, are its own state maps.
C17_SubjectIndependence ==
    /\ Len(fo_list) <= Len(Kept)
    /\ \A p \in 1..Len(fo_list) : fo_list[p] = FoOf(files[Kept[p]].data)
    /\ \A p \in 1..Len(dt_list) : dt_list[p] = DtOf(files[Kept[p]].data)
    /\ \A p \in 1..Len(ar_list) : ar_list[p] = ArOf(files[Kept[p]].data)
    /\ \A p \in 1..Len(tp_list) : tp_list[p] = TpOf(files[Kept[p]].data)
    /\ \A p \in 1..Len(tp_nopersist_list) :
           tp_nopersist_list[p] = TpNoPersistOf(files[Kept[p]].data)
    /\ \A s \in SubjectIds : OwnExtraction(s)

\* both subjects of the list <<2, 1>> have been processed and their metrics
\* differ: the second entry of each list is subject 1's own
C17_Witness ==
    /\ subject_list = <<2, 1>>
    /\ pc = "loop"
    /\ Len(fo_list) = 2
    /\ Len(tp_list) = 2
    /\ fo_list[1] # fo_list[2]
    /\ dt_list[1] # dt_list[2]
    /\ tp_list[2] = TpOf(files[1].data)
    /\ tp_list[1] # tp_list[2]

\* rows of the subject in the group state-map file
MyRows == SelectSeq(states_file.data, LAMBDA r : r.subject = subject_id)

CountOf(name) == Len(SelectSeq(MyRows, LAMBDA r : r.state = name))

\* the states of the subject that get_control_energy takes up: the networks
\* of its label list with at least one row
PresentNetworks ==
    {NetworkNames[i] : i \in {i \in 1..Len(NetworkNames) : CountOf(NetworkNames[i]) > 0}}

\* one of the four checks fails
CheckFailed ==
    \/ ~states_file.exists
    \/ MyRows = <<>>
    \/ ~sc_exists
    \/ \E l \in PresentNetworks : CountOf(l) # n_roi

\* C19: when the state-map file is absent, the subject has no rows in it,
\* the connectivity file is absent or a present network state has a number
\* of rows other than n_roi, the call ends by returning (never by raising)
\* with no control task and no energy file; an energy file exists only when
\* none of these holds; and the control tasks are exactly the pairs of
\* present network states, so that no task starts from or aims at NOTA.
C19_SkipWithoutEnergyFile ==
    /\ CheckFailed =>
           /\ pc \in {"energy", "matrix", "sc", "skipped"}
           /\ control_tasks = <<>>
           /\ ~energy_file.exists
    /\ energy_file.exists => ~CheckFailed /\ pc = "written"
    /\ pc \in {"solve", "written"} =>
           Len(control_tasks) = Cardinality(PresentNetworks) * Cardinality(PresentNetworks)
    /\ \A k \in 1..Len(control_tasks) :
           \A idx \in {control_tasks[k].initial_idx, control_tasks[k].target_idx} :
               /\ idx + 1 \in 1..Len(present_labels)
               /\ present_labels[idx + 1] # "NOTA"
               /\ present_labels[idx + 1] \in PresentNetworks
               /\ states_matrix[idx + 1] = temp_state(MyRows, present_labels[idx + 1])
               /\ \A p \in 1..Len(states_matrix[idx + 1]) :
                      states_matrix[idx + 1][p] # Rat(Len(original_labels), 1)

\* the file and the connectivity matrix exist and the subject has rows,
\* NOTA rows among them, but one network state has the wrong number of
\* rows: the call has returned
C19_Witness ==
    /\ pc = "skipped"
    /\ states_file.exists
    /\ sc_exists
    /\ CountOf("NOTA") = n_roi
    /\ \E l \in PresentNetworks : CountOf(l) # n_roi
    /\ \E l \in PresentNetworks : CountOf(l) = n_roi

\* the one subject of a 'thr_0' run has been saved
SavedThr0 == pc = "saved" /\ thre_type = "thr_0" /\ Len(mat.tp) = 1

\* adjacent pairs of the loaded array counted as a transition i -> j
Trans(i, j) ==
    Cardinality({t \in LoopPairs : time_labels[t] = i /\ time_labels[t + 1] = j})

\* counted transitions out of i: into every state of [1,K], the last one
\* (the reject state of 'thr_0') included
TransOut(i) == SeqSum([j \in 1..n_states |-> Trans(i, j)])

\* the same without the self-transitions
TransOutOff(i) == TransOut(i) - Trans(i, i)

StrictlyBetween0And1(x) == RatGt(x, Zero) /\ RatGt(One, x)

\* both persisted tensors are the returned ones without the last row and
\* column, entry for entry
SlicedOnly ==
    /\ Len(mat.tp[1]) = n_states - 1
    /\ Len(mat.tp_nopersist[1]) = n_states - 1
    /\ \A i \in 1..(n_states - 1) :
          /\ Len(mat.tp[1][i]) = n_states - 1
          /\ Len(mat.tp_nopersist[1][i]) = n_states - 1
          /\ \A j \in 1..(n_states - 1) :
                /\ mat.tp[1][i][j] = ret.tp[1][i][j]
                /\ mat.tp_nopersist[1][i][j] = ret.tp_nopersist[1][i][j]

\* a persisted row sums to 1 only for a state without a transition into
\* the reject state, and is otherwise strictly between 0 and 1 or all-zero
RowSumCases(row, into_reject) ==
    /\ RatSum(row) = One => into_reject = 0
    /\ RatSum(row) # One => StrictlyBetween0And1(RatSum(row)) \/ AllZero(row)

\* C21 as stated: for 'thr_0' the reject state's row and column are removed
\* from the TP tensors without renormalising; persisted entry (i, j) is
\* count(i->j) over the count of all in-range transitions out of i, those
\* into the reject state included; every row i sums to 1 minus the
\* probability of i->reject; a row sums to 1 only for a state that never
\* transitions into the reject state and is otherwise strictly between 0 and
\* 1 or all-zero.
C21_AsStated ==
    SavedThr0 =>
        /\ SlicedOnly
        /\ \A i \in 1..(n_states - 1) :
              /\ \A j \in 1..(n_states - 1) :
                    mat.tp[1][i][j][1] * TransOut(i) = Trans(i, j) * mat.tp[1][i][j][2]
              /\ RatSum(mat.tp[1][i]) = RatSub(One, ret.tp[1][i][n_states])
              /\ RowSumCases(mat.tp[1][i], Trans(i, n_states))

\* C21: for 'thr_0' the reject state's row and column are removed from both
\* TP tensors without renormalising. For a state i with at least one counted
\* transition out of it, persisted entry (i, j) is count(i->j) over the count
\* of all in-range transitions out of i (those into the reject state
\* included) and row i sums to 1 minus the probability of i->reject; the row
\* of a state with no counted transition out of it is all-zero. The
\* self-exclusive tensor obeys the same law with the self-transitions left
\* out of the counts. In both, a row sums to 1 only for a state that never
\* transitions into the reject state and is otherwise strictly between 0 and
\* 1 or all-zero.
C21_RejectRemovedUnrenormalised ==
    SavedThr0 =>
        /\ SlicedOnly
        /\ \A i \in 1..(n_states - 1) :
              LET row == mat.tp[1][i]
                  rown == mat.tp_nopersist[1][i]
              IN  /\ TransOut(i) > 0 =>
                        /\ \A j \in 1..(n_states - 1) :
                              row[j] = Rat(Trans(i, j), TransOut(i))
                        /\ RatSum(row) =
                              RatSub(One, Rat(Trans(i, n_states), TransOut(i)))
                  /\ TransOut(i) = 0 => AllZero(row)
                  /\ TransOutOff(i) > 0 =>
                        /\ \A j \in 1..(n_states - 1) :
                              rown[j] = IF j = i THEN Zero
                                        ELSE Rat(Trans(i, j), TransOutOff(i))
                        /\ RatSum(rown) =
                              RatSub(One, Rat(Trans(i, n_states), TransOutOff(i)))
                  /\ TransOutOff(i) = 0 => AllZero(rown)
                  /\ RowSumCases(row, Trans(i, n_states))
                  /\ RowSumCases(rown, Trans(i, n_states))

\* a 'thr_0' run with K = 3 has been saved in which state 1 moved once into
\* state 2 and once into the reject state (its row sums to 1/2), state 2
\* never moved into the reject state (its row sums to 1)
C21_Witness ==
    /\ SavedThr0
    /\ n_states = 3
    /\ Trans(1, 2) = 1 /\ Trans(1, 3) = 1 /\ TransOut(1) = 2
    /\ Trans(2, 3) = 0 /\ TransOut(2) > 0
    /\ RatSum(mat.tp[1][1]) = <<1, 2>>
    /\ RatSum(mat.tp[1][2]) = One

\* the lengths of the blocks labelled i (i 1-based), as the DT/AR loop
\* selects them
BlocksLabelled(i) == current_state_block_lengths(block_lengths, block_states, i - 1)

\* C22: for a label array of length T = total_timepoints and every state i in
\* 1..K, the number of timepoints labelled i equals the sum of the lengths of
\* the blocks labelled i, Fractional Occupancy equals Dwell Time x Appearance
\* Rate / 60, and FO, DT and AR of i are zero together or not at all.
C22_OccupancyIdentity ==
    (DTARDone /\ FullLength) =>
        LET f == Last(fo_list)
            dt == Last(dt_list)
            ar == Last(ar_list)
        IN  \A i \in 1..n_states :
              /\ Cardinality(Labelled(i)) = SeqSum(BlocksLabelled(i))
              /\ IsNumber(f[i]) /\ IsNumber(dt[i]) /\ IsNumber(ar[i])
              /\ f[i] = RatDiv(RatMul(dt[i], ar[i]), <<60, 1>>)
              /\ (f[i] = Zero) = (dt[i] = Zero)
              /\ (f[i] = Zero) = (ar[i] = Zero)

\* a full-length array of four timepoints, 0.735 s apart, in which one state
\* holds three timepoints in two blocks (FO 3/4, DT 1.5 x 0.735 s) and a
\* state of 1..K holds none (FO, DT and AR all 0)
C22_Witness ==
    /\ DTARDone
    /\ FullLength
    /\ total_timepoints = 4
    /\ tr_duration_s = <<147, 200>>
    /\ \E i, z \in 1..n_states :
          /\ Len(BlocksLabelled(i)) = 2
          /\ Last(fo_list)[i] = <<3, 4>>
          /\ Last(dt_list)[i] = <<441, 400>>
          /\ Last(fo_list)[z] = Zero
          /\ Last(dt_list)[z] = Zero
          /\ Last(ar_list)[z] = Zero


====
